---------------------------- MODULE Spec2Model ----------------------------
(***************************************************************************)
(* The wire codec of src/wire/readwrite.go as a state machine.             *)
(*                                                                         *)
(* A stream is the io.Reader or io.Writer a codec function is handed.  A   *)
(* reader holds the bytes not yet consumed and the most bytes one Read     *)
(* call delivers (a buffer delivers everything asked for, a socket or a    *)
(* pipe delivers a packet at a time).  A writer holds the bytes accepted   *)
(* so far and the room left before its writes come back short.             *)
(*                                                                         *)
(* Fixed-width unsigned integers are tuples of 16-bit limbs, most          *)
(* significant limb first, so that uint32 and uint64 keep their width.     *)
(* A big.Int is its magnitude: big-endian bytes with no leading zero.      *)
(***************************************************************************)
EXTENDS Integers, Sequences, FiniteSets, TLC

VARIABLES stream, op, arg, val, err, log, before, calls

vars == <<stream, op, arg, val, err, log, before, calls>>

(***************************************************************************)
(* Bounds of the model                                                     *)
(***************************************************************************)
\* codec calls made on one stream
MaxCalls == 1
\* longest ChainHash / TransactionHashRef list among the inputs
MaxList == 2

(***************************************************************************)
(* Program constants                                                       *)
(***************************************************************************)
IPLen == 16
HashSize == 32
BigIntLen == 32
PubKeyHashLen == 20
AbsWorkLen == 16
StateLen == 32
Disc16 == 253
Disc32 == 254
Disc64 == 255

(***************************************************************************)
(* Bytes, limbs and sequences                                              *)
(***************************************************************************)
Min(a, b) == IF a < b THEN a ELSE b

Take(s, k) == SubSeq(s, 1, k)

Drop(s, k) == SubSeq(s, k + 1, Len(s))

Zeros(n) == [i \in 1..n |-> 0]

Rep(b, n) == [i \in 1..n |-> b]

\* binary.LittleEndian.PutUint16/32/64: the limbs from the least significant
\* one, each as its low byte then its high byte
RECURSIVE LEBytes(_)
LEBytes(v) ==
    IF v = <<>> THEN <<>>
    ELSE <<v[Len(v)] % 256, v[Len(v)] \div 256>> \o LEBytes(SubSeq(v, 1, Len(v) - 1))

\* binary.LittleEndian.Uint16/32/64 of an even number of bytes
LEValue(b) ==
    [i \in 1..(Len(b) \div 2) |-> b[Len(b) - 2 * i + 1] + 256 * b[Len(b) - 2 * i + 2]]

\* a < b for two unsigned integers of the same width
RECURSIVE Lt(_, _)
Lt(a, b) ==
    IF a = <<>> THEN FALSE
    ELSE IF a[1] # b[1] THEN a[1] < b[1]
    ELSE Lt(Tail(a), Tail(b))

Le(a, b) == a = b \/ Lt(a, b)

\* uint64(x) of a narrower unsigned integer: zero extension
ToU64(v) == Zeros(4 - Len(v)) \o v

\* uint64(x) of a byte
U64OfByte(b) == <<0, 0, 0, b>>

\* uint8(val), uint16(val), uint32(val) of a uint64: truncation
U8Of(v) == v[4] % 256

U16Of(v) == <<v[4]>>

U32Of(v) == <<v[3], v[4]>>

\* uint64(len(x))
U64OfLen(n) == <<0, 0, n \div 65536, n % 65536>>

\* int(len) of a uint64 that fits the model's integers
IntOf(v) == v[3] * 65536 + v[4]

\* the literals of ReadVarInt and WriteVarInt
MinU16 == <<0, 0, 0, 253>>

MinU32 == <<0, 0, 1, 0>>

MinU64 == <<0, 1, 0, 0>>

MaxUint16 == <<0, 0, 0, 65535>>

MaxUint32 == <<0, 0, 65535, 65535>>

(***************************************************************************)
(* io.Reader and io.Writer                                                 *)
(***************************************************************************)
\* x := m; K(x) -- the value of m is computed once and named
Bind(m, K(_)) == CHOOSE r \in {K(x) : x \in {m}} : TRUE

IsReader(s) == s.kind = "reader"

IsWriter(s) == s.kind = "writer"

NewReader(data, mtu) == [kind |-> "reader", data |-> data, mtu |-> mtu]

NewWriter(room) == [kind |-> "writer", buf |-> <<>>, room |-> room]

\* one call r.Read(p) with len(p) = n, recorded in the log of calls
Read(io, n) ==
    LET k == Min(Min(n, io.s.mtu), Len(io.s.data))
    IN  [io   |-> [s   |-> [io.s EXCEPT !.data = Drop(@, k)],
                   log |-> Append(io.log, [call |-> "Read", req |-> n, got |-> k])],
         n    |-> k,
         err  |-> IF Len(io.s.data) = 0 THEN "EOF" ELSE "nil",
         data |-> Take(io.s.data, k)]

\* one call w.Write(p), recorded in the log of calls
Write(io, p) ==
    LET k == Min(Len(p), io.s.room)
    IN  [io  |-> [s   |-> [io.s EXCEPT !.buf = @ \o Take(p, k), !.room = @ - k],
                  log |-> Append(io.log, [call |-> "Write", req |-> Len(p), got |-> k])],
         n   |-> k,
         err |-> IF k < Len(p) THEN "short write" ELSE "nil"]

\* io.ReadFull inside binary.Read: Read is called for what is still missing
\* until n bytes are there or a Read fails. The reader gives mtu bytes a
\* call while it has them and (0, EOF) once it is empty, so the calls are
\* the full ones, then the one that finds the reader empty
ReadAtLeast(io, n) ==
    LET mtu   == io.s.mtu
        total == Min(n, Len(io.s.data))
        full  == (total + mtu - 1) \div mtu
        reads == [i \in 1..full |->
                     [call |-> "Read", req |-> n - (i - 1) * mtu,
                      got  |-> Min(mtu, total - (i - 1) * mtu)]]
        last  == IF total < n
                 THEN <<[call |-> "Read", req |-> n - total, got |-> 0]>>
                 ELSE <<>>
    IN  [io   |-> [s   |-> [io.s EXCEPT !.data = Drop(@, total)],
                   log |-> io.log \o reads \o last],
         data |-> Take(io.s.data, total),
         err  |-> IF total >= n THEN "nil"
                  ELSE IF total > 0 THEN "unexpected EOF"
                  ELSE "EOF"]

\* binary.Read(r, binary.LittleEndian, &x) for x of n bytes: x is assigned
\* only when all n bytes were read
BinaryRead(io, n) == ReadAtLeast(io, n)

\* binary.Write(w, binary.LittleEndian, x): one Write, its error returned
BinaryWrite(io, bytes) ==
    Bind(Write(io, bytes), LAMBDA x : [io |-> x.io, err |-> x.err])

Ret(io, v, e) == [io |-> io, val |-> v, err |-> e]

(***************************************************************************)
(* ReadVarInt, WriteVarInt                                                 *)
(***************************************************************************)
ErrCanon16 == "Varint not canonically packed -- uint16"

ErrCanon32 == "Varint not canonically packed -- uint32"

ErrCanon64 == "Varint not canonically packed -- uint64"

\* case 0xff
ReadVarInt64(io) ==
    Bind(BinaryRead(io, 8), LAMBDA p :
        IF p.err # "nil" THEN Ret(p.io, <<0, 0, 0, 0>>, p.err)
        ELSE LET rv == LEValue(p.data)
             IN  IF Lt(rv, MinU64) THEN Ret(p.io, <<0, 0, 0, 0>>, ErrCanon64)
                 ELSE Ret(p.io, rv, "nil"))

\* case 0xfe: the error of this binary.Read is dropped, err is still the
\* error of the discriminant read and sv keeps 0 when the read failed
ReadVarInt32(io, err0) ==
    Bind(BinaryRead(io, 4), LAMBDA p :
        LET sv == IF p.err = "nil" THEN LEValue(p.data) ELSE <<0, 0>>
            rv == ToU64(sv)
        IN  IF err0 # "nil" THEN Ret(p.io, <<0, 0, 0, 0>>, err0)
            ELSE IF Lt(rv, MinU32) THEN Ret(p.io, <<0, 0, 0, 0>>, ErrCanon32)
            ELSE Ret(p.io, rv, "nil"))

\* case 0xfd without the comparison with 0xfd
ReadVarInt16_AcceptsAll(io, err0) ==
    Bind(BinaryRead(io, 2), LAMBDA p :
        LET sv == IF p.err = "nil" THEN LEValue(p.data) ELSE <<0>>
        IN  IF err0 # "nil" THEN Ret(p.io, <<0, 0, 0, 0>>, err0)
            ELSE Ret(p.io, ToU64(sv), "nil"))

\* case 0xfd: the error of this binary.Read is dropped, err is still the
\* error of the discriminant read and sv keeps 0 when the read failed
ReadVarInt16(io, err0) ==
    Bind(BinaryRead(io, 2), LAMBDA p :
        LET sv == IF p.err = "nil" THEN LEValue(p.data) ELSE <<0>>
            rv == ToU64(sv)
        IN  IF err0 # "nil" THEN Ret(p.io, <<0, 0, 0, 0>>, err0)
            ELSE IF Lt(rv, MinU16) THEN Ret(p.io, <<0, 0, 0, 0>>, ErrCanon16)
            ELSE Ret(p.io, rv, "nil"))

ReadVarInt(io) ==
    Bind(BinaryRead(io, 1), LAMBDA d :
        IF d.err # "nil" THEN Ret(d.io, <<0, 0, 0, 0>>, d.err)
        ELSE LET discriminant == d.data[1]
             IN  CASE discriminant = Disc64 -> ReadVarInt64(d.io)
                   [] discriminant = Disc32 -> ReadVarInt32(d.io, d.err)
                   [] discriminant = Disc16 -> ReadVarInt16(d.io, d.err)
                   [] OTHER -> Ret(d.io, U64OfByte(discriminant), "nil"))

\* the discriminant, then the payload unless the discriminant failed
WriteTier(io, disc, payload) ==
    Bind(BinaryWrite(io, <<disc>>), LAMBDA a :
        IF a.err # "nil" THEN a ELSE BinaryWrite(a.io, payload))

\* WriteVarInt with val < math.MaxUint16 for val <= math.MaxUint16
WriteVarInt_WrongBoundary(io, v) ==
    IF Lt(v, MinU16) THEN BinaryWrite(io, <<U8Of(v)>>)
    ELSE IF Lt(v, MaxUint16) THEN WriteTier(io, Disc16, LEBytes(U16Of(v)))
    ELSE IF Le(v, MaxUint32) THEN WriteTier(io, Disc32, LEBytes(U32Of(v)))
    ELSE WriteTier(io, Disc64, LEBytes(v))

WriteVarInt(io, v) ==
    IF Lt(v, MinU16) THEN BinaryWrite(io, <<U8Of(v)>>)
    ELSE IF Le(v, MaxUint16) THEN WriteTier(io, Disc16, LEBytes(U16Of(v)))
    ELSE IF Le(v, MaxUint32) THEN WriteTier(io, Disc32, LEBytes(U32Of(v)))
    ELSE WriteTier(io, Disc64, LEBytes(v))

(***************************************************************************)
(* Strings, IP addresses, big integers, chain hashes                       *)
(***************************************************************************)
\* a nil pointer or nil slice
Nil == <<-1>>

\* the all-zero hash that init() parses into nullHash
nullHash == Zeros(HashSize)

\* the request passed to Read for a buffer of len bytes; a length beyond
\* the model's integers is asked for as 2^30, more than any stream holds
ReqLen(v) ==
    IF v[1] = 0 /\ v[2] = 0 /\ v[3] < 16384 THEN IntOf(v) ELSE 1073741824

ReadVarString(io) ==
    Bind(ReadVarInt(io), LAMBDA l :
        IF l.err # "nil" THEN Ret(l.io, <<>>, l.err)
        \* make([]byte, len) panics from 2^48 on
        ELSE IF l.val[1] # 0 THEN Ret(l.io, <<>>, "panic: makeslice: len out of range")
        ELSE Bind(Read(l.io, ReqLen(l.val)), LAMBDA x :
                 IF x.n # ReqLen(l.val)
                 THEN Ret(x.io, <<>>, "Could not read all string bytes")
                 ELSE Ret(x.io, x.data, "nil")))

ReadIPAddr(io) ==
    Bind(Read(io, IPLen), LAMBDA x :
        IF x.n # IPLen THEN Ret(x.io, Nil, "Unable to read IP address")
        ELSE IF x.err # "nil" THEN Ret(x.io, Nil, x.err)
        ELSE Ret(x.io, x.data, "nil"))

\* net.IP.To16: a 4-byte address mapped into ::ffff:a.b.c.d, a 16-byte
\* address itself, anything else nil
To16(ip) ==
    IF Len(ip) = 4 THEN Zeros(10) \o <<255, 255>> \o ip
    ELSE IF Len(ip) = 16 THEN ip
    ELSE <<>>

WriteIPAddr(io, ip) ==
    Bind(Write(io, To16(ip) \o Zeros(IPLen - Len(To16(ip)))), LAMBDA x :
        IF x.n # IPLen THEN [io |-> x.io, err |-> "Unable to write IP address"]
        ELSE [io |-> x.io, err |-> x.err])

WriteVarString(io, str) ==
    Bind(WriteVarInt(io, U64OfLen(Len(str))), LAMBDA a :
        IF a.err # "nil" THEN a
        ELSE Bind(Write(a.io, str), LAMBDA x :
                 IF x.n # Len(str)
                 THEN [io |-> x.io, err |-> "Not all bytes could be written"]
                 ELSE [io |-> x.io, err |-> "nil"]))

\* b[len(b)-32:] of 32 zero bytes followed by i.Bytes()
Last32(i) ==
    SubSeq(Zeros(BigIntLen) \o i, Len(i) + 1, Len(i) + BigIntLen)

WriteBigInt256(io, i) ==
    Bind(Write(io, Last32(i)), LAMBDA x :
        IF x.n # BigIntLen
        THEN [io |-> x.io, err |-> "Couldn't write 32 bytes for big.int"]
        ELSE [io |-> x.io, err |-> x.err])

\* the index of the first byte of b that is not zero, 0 when there is none
FirstNonZero(b) ==
    LET nz == {i \in 1..Len(b) : b[i] # 0}
    IN  IF nz = {} THEN 0 ELSE CHOOSE i \in nz : \A j \in nz : i <= j

\* big.Int.SetBytes: the magnitude of big-endian bytes
SetBytes(b) ==
    IF FirstNonZero(b) = 0 THEN <<>> ELSE Drop(b, FirstNonZero(b) - 1)

\* for b[0] == 0x00 { b = b[1:] }: the zero bytes in front are dropped, and
\* when every byte is zero b[0] indexes the empty slice and panics
StripLoop(b) ==
    IF FirstNonZero(b) = 0 THEN [panic |-> TRUE, b |-> <<>>]
    ELSE [panic |-> FALSE, b |-> Drop(b, FirstNonZero(b) - 1)]

ReadBigInt256(io) ==
    Bind(Read(io, BigIntLen), LAMBDA x :
        IF x.n # BigIntLen THEN Ret(x.io, Nil, "Couldn't read 32 bytes for big.int")
        ELSE IF x.err # "nil" THEN Ret(x.io, Nil, x.err)
        ELSE Bind(StripLoop(x.data), LAMBDA st :
                 IF st.panic THEN Ret(x.io, Nil, "panic: index out of range")
                 ELSE Ret(x.io, SetBytes(st.b), "nil")))

\* WriteChainHash writing nothing for a nil hash
WriteChainHash_OmitsNil(io, i) ==
    IF i = Nil THEN [io |-> io, err |-> "nil"]
    ELSE Bind(Write(io, i), LAMBDA x :
             IF x.n # HashSize
             THEN [io |-> x.io, err |-> "Couldn't write 32 bytes for chainhash"]
             ELSE [io |-> x.io, err |-> x.err])

WriteChainHash(io, i) ==
    Bind(Write(io, IF i = Nil THEN nullHash ELSE i), LAMBDA x :
        IF x.n # HashSize
        THEN [io |-> x.io, err |-> "Couldn't write 32 bytes for chainhash"]
        ELSE [io |-> x.io, err |-> x.err])

\* ReadChainHash with io.ReadFull for r.Read
ReadChainHash_Retries(io) ==
    Bind(ReadAtLeast(io, HashSize), LAMBDA x :
        IF Len(x.data) # HashSize
        THEN Ret(x.io, Nil, "Couldn't read 32 bytes for chainhash")
        ELSE Ret(x.io, x.data, "nil"))

ReadChainHash(io) ==
    Bind(Read(io, HashSize), LAMBDA x :
        IF x.n # HashSize THEN Ret(x.io, Nil, "Couldn't read 32 bytes for chainhash")
        ELSE IF x.err # "nil" THEN Ret(x.io, Nil, x.err)
        ELSE Ret(x.io, x.data, "nil"))

(***************************************************************************)
(* SmallBlockHeader                                                        *)
(***************************************************************************)
\* SmallBlockHeader{}: Version is the bit pattern of the int32
ZeroHeader ==
    [Version |-> <<0, 0>>, PreviousBlock |-> Nil, Timestamp |-> <<0, 0>>,
     Bits |-> <<0, 0>>, Nonce |-> <<0, 0>>]

ReadSmallBlockHeader(io) ==
    Bind(BinaryRead(io, 4), LAMBDA a :
    IF a.err # "nil" THEN Ret(a.io, ZeroHeader, a.err) ELSE
    Bind(ReadChainHash(a.io), LAMBDA b :
    \* the field is assigned before the error is looked at
    LET s2 == [ZeroHeader EXCEPT !.Version = LEValue(a.data), !.PreviousBlock = b.val]
    IN  IF b.err # "nil" THEN Ret(b.io, s2, b.err) ELSE
    Bind(BinaryRead(b.io, 4), LAMBDA c :
    IF c.err # "nil" THEN Ret(c.io, s2, c.err) ELSE
    Bind(BinaryRead(c.io, 4), LAMBDA d :
    LET s3 == [s2 EXCEPT !.Timestamp = LEValue(c.data)]
    IN  IF d.err # "nil" THEN Ret(d.io, s3, d.err) ELSE
    Bind(BinaryRead(d.io, 4), LAMBDA e :
    LET s4 == [s3 EXCEPT !.Bits = LEValue(d.data)]
    IN  IF e.err # "nil" THEN Ret(e.io, s4, e.err)
        ELSE Ret(e.io, [s4 EXCEPT !.Nonce = LEValue(e.data)], "nil"))))))

WriteSmallBlockHeader(io, sbh) ==
    Bind(BinaryWrite(io, LEBytes(sbh.Version)), LAMBDA a :
    IF a.err # "nil" THEN a ELSE
    Bind(WriteChainHash(a.io, sbh.PreviousBlock), LAMBDA b :
    IF b.err # "nil" THEN b ELSE
    Bind(BinaryWrite(b.io, LEBytes(sbh.Timestamp)), LAMBDA c :
    IF c.err # "nil" THEN c ELSE
    Bind(BinaryWrite(c.io, LEBytes(sbh.Bits)), LAMBDA d :
    IF d.err # "nil" THEN d ELSE
    Bind(BinaryWrite(d.io, LEBytes(sbh.Nonce)), LAMBDA e :
    IF e.err # "nil" THEN e ELSE [io |-> e.io, err |-> "nil"])))))

(***************************************************************************)
(* Lists                                                                   *)
(***************************************************************************)
\* for _, h := range list { WriteChainHash(w, h) }: the result is dropped
RECURSIVE WriteHashes(_, _)
WriteHashes(io, list) ==
    IF list = <<>> THEN io
    ELSE Bind(WriteChainHash(io, Head(list)), LAMBDA x : WriteHashes(x.io, Tail(list)))

WriteChainHashList(io, list) ==
    Bind(WriteVarInt(io, U64OfLen(Len(list))), LAMBDA a :
        IF a.err # "nil" THEN a
        ELSE [io |-> WriteHashes(a.io, list), err |-> "nil"])

\* the turns the loop for i := uint64(0); i < count; i++ can take: a turn
\* that does not fail takes at least `least' bytes, so the loop has ended,
\* by its bound or by an error, after one turn more than the bytes allow
Turns(io, count, least) ==
    IF Lt(count, U64OfLen(Len(io.s.data) \div least + 1)) THEN IntOf(count)
    ELSE Len(io.s.data) \div least + 1

\* n turns of the loop of ReadChainHashList, taken from the list so far:
\* h, err := ReadChainHash(r), on an error the loop returns, otherwise
\* list = append(list, h). The turns are computed by halves, the second
\* half only when the first one ended without an error
RECURSIVE ReadHashes(_, _, _)
ReadHashes(io, list, n) ==
    IF n = 0 THEN Ret(io, list, "nil")
    ELSE IF n = 1
    THEN Bind(ReadChainHash(io), LAMBDA h :
             IF h.err # "nil" THEN Ret(h.io, list, h.err)
             ELSE Ret(h.io, Append(list, h.val), "nil"))
    ELSE Bind(ReadHashes(io, list, n \div 2), LAMBDA p :
             IF p.err # "nil" THEN p
             ELSE ReadHashes(p.io, p.val, n - n \div 2))

ReadChainHashList(io) ==
    Bind(ReadVarInt(io), LAMBDA c :
        IF c.err # "nil" THEN Ret(c.io, <<>>, c.err)
        ELSE ReadHashes(c.io, <<>>, Turns(c.io, c.val, HashSize)))

ReadTransactionHashRef(io) ==
    Bind(ReadVarInt(io), LAMBDA a :
        IF a.err # "nil"
        THEN Ret(a.io, [ShareCount |-> a.val, TxCount |-> <<0, 0, 0, 0>>], a.err)
        ELSE Bind(ReadVarInt(a.io), LAMBDA b :
                 Ret(b.io, [ShareCount |-> a.val, TxCount |-> b.val], b.err)))

\* n turns of the loop of ReadTransactionHashRefList, computed by halves
\* as the turns of ReadChainHashList are
RECURSIVE ReadRefs(_, _, _)
ReadRefs(io, list, n) ==
    IF n = 0 THEN Ret(io, list, "nil")
    ELSE IF n = 1
    THEN Bind(ReadTransactionHashRef(io), LAMBDA t :
             IF t.err # "nil" THEN Ret(t.io, list, t.err)
             ELSE Ret(t.io, Append(list, t.val), "nil"))
    ELSE Bind(ReadRefs(io, list, n \div 2), LAMBDA p :
             IF p.err # "nil" THEN p
             ELSE ReadRefs(p.io, p.val, n - n \div 2))

ReadTransactionHashRefList(io) ==
    Bind(ReadVarInt(io), LAMBDA c :
        IF c.err # "nil" THEN Ret(c.io, <<>>, c.err)
        ELSE ReadRefs(c.io, <<>>, Turns(c.io, c.val, 2)))

(***************************************************************************)
(* SegwitData, ShareData, HashLink, ShareInfo                              *)
(***************************************************************************)
\* SegwitData{}: a nil slice is the empty list
ZeroSegwitData == [TXIDMerkleLink |-> <<>>, WTXIDMerkleRoot |-> Nil]

ReadSegwitData(io) ==
    Bind(ReadChainHashList(io), LAMBDA a :
        IF a.err # "nil"
        THEN Ret(a.io, [ZeroSegwitData EXCEPT !.TXIDMerkleLink = a.val], a.err)
        ELSE Bind(ReadChainHash(a.io), LAMBDA b :
                 Ret(b.io, [TXIDMerkleLink |-> a.val, WTXIDMerkleRoot |-> b.val], b.err)))

\* ShareData{}
ZeroShareData ==
    [PreviousShareHash |-> Nil, CoinBase |-> <<>>, Nonce |-> <<0, 0>>,
     PubKeyHash |-> Nil, PubKeyHashVersion |-> 0, Subsidy |-> <<0, 0, 0, 0>>,
     Donation |-> <<0>>, StaleInfo |-> 0, DesiredVersion |-> <<0, 0, 0, 0>>]

\* the int8 a byte stands for
Int8Of(b) == IF b >= 128 THEN b - 256 ELSE b

ReadShareData(io) ==
    Bind(ReadChainHash(io), LAMBDA a :
    LET s1 == [ZeroShareData EXCEPT !.PreviousShareHash = a.val]
    IN  IF a.err # "nil" THEN Ret(a.io, s1, a.err) ELSE
    Bind(ReadVarString(a.io), LAMBDA b :
    LET s2 == [s1 EXCEPT !.CoinBase = b.val]
    IN  IF b.err # "nil" THEN Ret(b.io, s2, b.err) ELSE
    Bind(BinaryRead(b.io, 4), LAMBDA c :
    IF c.err # "nil" THEN Ret(c.io, s2, c.err) ELSE
    Bind(Read(c.io, PubKeyHashLen), LAMBDA d :
    LET s4 == [s2 EXCEPT !.Nonce = LEValue(c.data),
                         !.PubKeyHash = d.data \o Zeros(PubKeyHashLen - d.n)]
    IN  IF d.err # "nil" THEN Ret(d.io, s4, d.err)
        ELSE IF d.n < PubKeyHashLen
        THEN Ret(d.io, s4, "Could not read pubkeyhash. Expected 20")
        ELSE
    Bind(BinaryRead(d.io, 1), LAMBDA e :
    IF e.err # "nil" THEN Ret(e.io, s4, e.err) ELSE
    Bind(BinaryRead(e.io, 8), LAMBDA f :
    LET s5 == [s4 EXCEPT !.PubKeyHashVersion = e.data[1]]
    IN  IF f.err # "nil" THEN Ret(f.io, s5, f.err) ELSE
    Bind(BinaryRead(f.io, 2), LAMBDA g :
    LET s6 == [s5 EXCEPT !.Subsidy = LEValue(f.data)]
    IN  IF g.err # "nil" THEN Ret(g.io, s6, g.err) ELSE
    Bind(BinaryRead(g.io, 1), LAMBDA h :
    LET s7 == [s6 EXCEPT !.Donation = LEValue(g.data)]
    IN  IF h.err # "nil" THEN Ret(h.io, s7, h.err) ELSE
    Bind(ReadVarInt(h.io), LAMBDA i :
    Ret(i.io, [s7 EXCEPT !.StaleInfo = Int8Of(h.data[1]), !.DesiredVersion = i.val],
        i.err))))))))))

\* HashLink{}
ZeroHashLink == [State |-> <<>>, Length |-> <<0, 0, 0, 0>>]

ReadHashLink(io) ==
    Bind(Read(io, StateLen), LAMBDA x :
        IF x.err # "nil" THEN Ret(x.io, ZeroHashLink, x.err)
        ELSE IF x.n # StateLen THEN Ret(x.io, ZeroHashLink, "Hashlink state not 32 bytes")
        ELSE Bind(ReadVarInt(x.io), LAMBDA l :
                 Ret(l.io, [State |-> x.data, Length |-> l.val], l.err)))

\* ShareInfo{}: a nil slice is the empty list
ZeroShareInfo ==
    [ShareData |-> ZeroShareData, SegwitData |-> ZeroSegwitData,
     NewTransactionHashes |-> <<>>, TransactionHashRefs |-> <<>>,
     FarShareHash |-> Nil, MaxBits |-> <<0, 0>>, Bits |-> <<0, 0>>,
     Timestamp |-> <<0, 0>>, AbsHeight |-> <<0, 0>>, AbsWork |-> Nil]

\* ReadSegwitData called whatever the flag
ReadSegwitPart_Always(io, segwit) == ReadSegwitData(io)

\* if segwit { si.SegwitData, err = ReadSegwitData(r) ... }
ReadSegwitPart(io, segwit) ==
    IF segwit THEN ReadSegwitData(io) ELSE Ret(io, ZeroSegwitData, "nil")

ReadShareInfo(io, segwit) ==
    Bind(ReadShareData(io), LAMBDA a :
    LET s1 == [ZeroShareInfo EXCEPT !.ShareData = a.val]
    IN  IF a.err # "nil" THEN Ret(a.io, s1, a.err) ELSE
    Bind(ReadSegwitPart(a.io, segwit), LAMBDA b :
    LET s2 == [s1 EXCEPT !.SegwitData = b.val]
    IN  IF b.err # "nil" THEN Ret(b.io, s2, b.err) ELSE
    Bind(ReadChainHashList(b.io), LAMBDA c :
    LET s3 == [s2 EXCEPT !.NewTransactionHashes = c.val]
    IN  IF c.err # "nil" THEN Ret(c.io, s3, c.err) ELSE
    Bind(ReadTransactionHashRefList(c.io), LAMBDA d :
    LET s4 == [s3 EXCEPT !.TransactionHashRefs = d.val]
    IN  IF d.err # "nil" THEN Ret(d.io, s4, d.err) ELSE
    Bind(ReadChainHash(d.io), LAMBDA e :
    LET s5 == [s4 EXCEPT !.FarShareHash = e.val]
    IN  IF e.err # "nil" THEN Ret(e.io, s5, e.err) ELSE
    Bind(BinaryRead(e.io, 4), LAMBDA f :
    IF f.err # "nil" THEN Ret(f.io, s5, f.err) ELSE
    Bind(BinaryRead(f.io, 4), LAMBDA g :
    LET s6 == [s5 EXCEPT !.MaxBits = LEValue(f.data)]
    IN  IF g.err # "nil" THEN Ret(g.io, s6, g.err) ELSE
    Bind(BinaryRead(g.io, 4), LAMBDA h :
    LET s7 == [s6 EXCEPT !.Bits = LEValue(g.data)]
    IN  IF h.err # "nil" THEN Ret(h.io, s7, h.err) ELSE
    Bind(BinaryRead(h.io, 4), LAMBDA i :
    LET s8 == [s7 EXCEPT !.Timestamp = LEValue(h.data)]
    IN  IF i.err # "nil" THEN Ret(i.io, s8, i.err) ELSE
    Bind(Read(i.io, AbsWorkLen), LAMBDA j :
    LET s9 == [s8 EXCEPT !.AbsHeight = LEValue(i.data)]
    IN  IF j.err # "nil" THEN Ret(j.io, s9, j.err)
        ELSE IF j.n < AbsWorkLen THEN Ret(j.io, s9, "Could not read abswork 16 bytes")
        ELSE Ret(j.io, [s9 EXCEPT !.AbsWork = SetBytes(j.data)], "nil")))))))))))

(***************************************************************************)
(* Inputs: the values handed to the encoders and the byte streams handed   *)
(* to the decoders                                                         *)
(***************************************************************************)
RECURSIVE Flat(_)
Flat(ss) == IF ss = <<>> THEN <<>> ELSE Head(ss) \o Flat(Tail(ss))

\* the prefixes of s that drop k trailing bytes, k in ks
Cut(s, ks) == {Take(s, IF k > Len(s) THEN 0 ELSE Len(s) - k) : k \in ks}

\* 0, 1, 0xfc, 0xfd, 0xff, 0x100, 0xffff, 0x10000, 0xffffffff, 0x100000000,
\* 0x0102030405060708, 2^48, 2^64 - 1
U64Samples ==
    {<<0, 0, 0, 0>>, <<0, 0, 0, 1>>, <<0, 0, 0, 252>>, <<0, 0, 0, 253>>,
     <<0, 0, 0, 255>>, <<0, 0, 0, 256>>, <<0, 0, 0, 65535>>, <<0, 0, 1, 0>>,
     <<0, 0, 65535, 65535>>, <<0, 1, 0, 0>>, <<258, 772, 1286, 1800>>,
     <<1, 0, 0, 0>>, <<65535, 65535, 65535, 65535>>}

\* every sample in every tier, minimal or not, whole, cut short, or followed
\* by another byte
VarIntStreams ==
    UNION {Cut(e \o <<7>>, 0..9) :
             e \in UNION {{<<v[4] % 256>>,
                           <<253, v[4] % 256, v[4] \div 256>>,
                           <<254, v[4] % 256, v[4] \div 256, v[3] % 256, v[3] \div 256>>,
                           <<255, v[4] % 256, v[4] \div 256, v[3] % 256, v[3] \div 256,
                             v[2] % 256, v[2] \div 256, v[1] % 256, v[1] \div 256>>} :
                          v \in U64Samples}}

HashAt(i) == [j \in 1..HashSize |-> (7 * i + j) % 256]

HashSamples == {Zeros(HashSize), Zeros(HashSize - 1) \o <<1>>, HashAt(1)}

\* 16, 20 and 32 byte fields, whole, cut short, or followed by more bytes
FixedStreams ==
    UNION {Cut(h \o <<8, 9>>, {0, 1, 2, 3, 13, 14, 15, 17, 18, 19, 34}) : h \in HashSamples}

\* a VarString: length, body, then another byte
StrSamples == {<<>>, <<97, 98, 99, 100>>, Rep(120, 253)}

StringStreams ==
    Cut(<<4, 97, 98, 99, 100, 7>>, 0..3) \cup {<<0>>, <<0, 7>>}
        \cup Cut(<<253, 253, 0>> \o Rep(120, 253) \o <<7>>, {0, 1, 2})
        \cup {<<255>> \o Zeros(6) \o <<1, 0, 5>>, <<254, 0, 0, 1, 0, 5>>}

\* a ChainHash list of count c carrying n hashes
HashListWire(c, n) == <<c>> \o Flat([i \in 1..n |-> HashAt(i)])

HashListStreams ==
    UNION {Cut(HashListWire(c, n) \o <<7>>, {0, 1, 2, 33}) :
             c \in 0..MaxList, n \in 0..MaxList}

\* a TransactionHashRef: ShareCount i in one byte, TxCount 252 + i in three
RefAt(i) == [ShareCount |-> <<0, 0, 0, i>>, TxCount |-> <<0, 0, 0, 252 + i>>]

RefWire(i) == <<i, 253, (252 + i) % 256, (252 + i) \div 256>>

RefListWire(c, n) == <<c>> \o Flat([i \in 1..n |-> RefWire(i)])

RefListStreams ==
    UNION {Cut(RefListWire(c, n) \o <<7>>, {0, 1, 2, 3}) :
             c \in 0..MaxList, n \in 0..MaxList}

\* a HashLink: 32 bytes of state and a length
HashLinkStreams ==
    UNION {Cut(HashAt(2) \o l \o <<7>>, {0, 1, 2, 3}) : l \in {<<5>>, <<253, 0, 1>>}}

\* a SmallBlockHeader: version 2, previous block, timestamp, bits, nonce
HeaderSamples ==
    {[Version |-> <<0, 2>>, PreviousBlock |-> h, Timestamp |-> <<1, 2>>,
      Bits |-> <<7424, 65535>>, Nonce |-> <<0, 42>>] : h \in {Nil, HashAt(1)}}

HeaderStreams ==
    Cut(<<2, 0, 0, 0>> \o HashAt(1) \o <<2, 0, 1, 0, 255, 255, 0, 29, 42, 0, 0, 0, 7>>,
        {0, 1, 2, 6, 10, 20})

\* ShareData as the protocol lays it out, with the value it stands for:
\* variant 0 is the end-to-end scenario of the specification (subsidy
\* 5000000000, desiredVersion 17), variant 1 has wider fields
ShareDataVector(variant) ==
    IF variant = 0
    THEN [v |-> [PreviousShareHash |-> HashAt(1), CoinBase |-> <<97, 98, 99, 100>>,
                 Nonce |-> <<0, 42>>, PubKeyHash |-> Zeros(PubKeyHashLen),
                 PubKeyHashVersion |-> 0, Subsidy |-> <<0, 1, 10757, 61952>>,
                 Donation |-> <<0>>, StaleInfo |-> 0,
                 DesiredVersion |-> <<0, 0, 0, 17>>],
          w |-> HashAt(1) \o <<4, 97, 98, 99, 100>> \o <<42, 0, 0, 0>>
                  \o Zeros(PubKeyHashLen) \o <<0>> \o <<0, 242, 5, 42, 1, 0, 0, 0>>
                  \o <<0, 0>> \o <<0>> \o <<17>>]
    ELSE [v |-> [PreviousShareHash |-> Zeros(HashSize), CoinBase |-> <<>>,
                 Nonce |-> <<65535, 65534>>,
                 PubKeyHash |-> [j \in 1..PubKeyHashLen |-> j],
                 PubKeyHashVersion |-> 111, Subsidy |-> <<258, 772, 1286, 1800>>,
                 Donation |-> <<513>>, StaleInfo |-> -3,
                 DesiredVersion |-> <<0, 0, 0, 4660>>],
          w |-> Zeros(HashSize) \o <<0>> \o <<254, 255, 255, 255>>
                  \o [j \in 1..PubKeyHashLen |-> j] \o <<111>>
                  \o <<8, 7, 6, 5, 4, 3, 2, 1>> \o <<1, 2>> \o <<253>>
                  \o <<253, 52, 18>>]

\* ShareInfo as the protocol lays it out: ShareData, SegwitData when the
\* share is a segwit one, n new transaction hashes, n references, the far
\* share hash, maxBits, bits, timestamp, absHeight, absWork
ShareInfoVector(variant, n, segwit) ==
    LET sd == ShareDataVector(variant)
        link == [i \in 1..n |-> HashAt(i + 3)]
        txs == [i \in 1..n |-> HashAt(i)]
        refs == [i \in 1..n |-> RefAt(i)]
        work == IF variant = 0 THEN Zeros(AbsWorkLen - 2) \o <<1, 0>>
                ELSE Rep(255, AbsWorkLen)
    IN  [segwit |-> segwit,
         v |-> [ShareData |-> sd.v,
                SegwitData |-> IF segwit
                               THEN [TXIDMerkleLink |-> link, WTXIDMerkleRoot |-> HashAt(9)]
                               ELSE ZeroSegwitData,
                NewTransactionHashes |-> txs, TransactionHashRefs |-> refs,
                FarShareHash |-> HashAt(8), MaxBits |-> <<7424, 65535>>,
                Bits |-> <<7186, 13398>>, Timestamp |-> <<1, 2>>,
                AbsHeight |-> <<0, 7>>,
                AbsWork |-> IF variant = 0 THEN <<1, 0>> ELSE work],
         w |-> sd.w
                 \o (IF segwit THEN <<n>> \o Flat(link) \o HashAt(9) ELSE <<>>)
                 \o <<n>> \o Flat(txs)
                 \o <<n>> \o Flat([i \in 1..n |-> RefWire(i)])
                 \o HashAt(8) \o <<255, 255, 0, 29>> \o <<86, 52, 18, 28>>
                 \o <<2, 0, 1, 0>> \o <<7, 0, 0, 0>> \o work]

ShareInfoVectors ==
    {ShareInfoVector(variant, n, segwit) :
        variant \in {0, 1}, n \in 0..MaxList, segwit \in BOOLEAN}

ShareInfoStreams ==
    UNION {Cut(x.w \o <<7>>, {0, 1, 2, 17, 40, 60, 110}) : x \in ShareInfoVectors}

InputStreams ==
    VarIntStreams \cup FixedStreams \cup StringStreams \cup HashListStreams
        \cup RefListStreams \cup HashLinkStreams \cup HeaderStreams \cup ShareInfoStreams

\* the most bytes one Read delivers: a byte, a small packet, a hash, all
MTUs == {1, 20, 32, 65536}

\* the bytes a writer accepts before its writes come back short
Rooms == {0, 1, 3, 33, 40, 4096}

\* the bytes a writer holds before the call
Written == {<<>>, <<9, 9>>}

IPSamples == {<<>>, <<127, 0, 0, 1>>, <<1, 2, 3>>, [j \in 1..IPLen |-> 2 * j]}

\* 0, 1, 256, 2^248, 2^256 - 1, 2^256
BigIntSamples ==
    {<<>>, <<1>>, <<1, 0>>, <<1>> \o Zeros(BigIntLen - 1), Rep(255, BigIntLen),
     <<1>> \o Zeros(BigIntLen)}

\* the lists of at most n hashes, a nil pointer among them
RECURSIVE HashLists(_)
HashLists(n) ==
    IF n = 0 THEN {<<>>}
    ELSE HashLists(n - 1)
           \cup {Append(l, h) : l \in {x \in HashLists(n - 1) : Len(x) = n - 1},
                                h \in {Nil, Zeros(HashSize - 1) \o <<1>>, HashAt(1)}}

(***************************************************************************)
(* The state machine: a stream, and the codec calls made on it             *)
(***************************************************************************)
NoArg == <<>>

Start(s) == [s |-> s, log |-> <<>>]

\* the value a call returned, filed under the name of the call
Tagged(name, v) == name :> v

\* the value the last call returned
Val == val[op]

Init ==
    /\ stream \in {NewReader(d, m) : d \in InputStreams, m \in MTUs}
                    \cup {[NewWriter(n) EXCEPT !.buf = b] : n \in Rooms, b \in Written}
    /\ op = "none"
    /\ arg = NoArg
    /\ val = Tagged("none", NoArg)
    /\ err = "nil"
    /\ log = <<>>
    /\ before = stream
    /\ calls = 0

\* a decoder called on the stream: its value, its error, the Read calls it made
Decoded(name, a, x) ==
    /\ stream' = x.io.s
    /\ op' = name
    /\ arg' = a
    /\ val' = Tagged(name, x.val)
    /\ err' = x.err
    /\ log' = x.io.log
    /\ before' = stream
    /\ calls' = calls + 1

\* an encoder called on the stream: its error, the Write calls it made
Encoded(name, a, x) ==
    /\ stream' = x.io.s
    /\ op' = name
    /\ arg' = a
    /\ val' = Tagged(name, NoArg)
    /\ err' = x.err
    /\ log' = x.io.log
    /\ before' = stream
    /\ calls' = calls + 1

CallReadVarString ==
    /\ IsReader(stream)
    /\ calls < MaxCalls
    /\ \E x \in {ReadVarString(Start(stream))} : Decoded("ReadVarString", NoArg, x)

CallReadVarInt ==
    /\ IsReader(stream)
    /\ calls < MaxCalls
    /\ \E x \in {ReadVarInt(Start(stream))} : Decoded("ReadVarInt", NoArg, x)

CallReadIPAddr ==
    /\ IsReader(stream)
    /\ calls < MaxCalls
    /\ \E x \in {ReadIPAddr(Start(stream))} : Decoded("ReadIPAddr", NoArg, x)

CallReadBigInt256 ==
    /\ IsReader(stream)
    /\ calls < MaxCalls
    /\ \E x \in {ReadBigInt256(Start(stream))} : Decoded("ReadBigInt256", NoArg, x)

CallReadChainHash ==
    /\ IsReader(stream)
    /\ calls < MaxCalls
    /\ \E x \in {ReadChainHash(Start(stream))} : Decoded("ReadChainHash", NoArg, x)

CallReadSmallBlockHeader ==
    /\ IsReader(stream)
    /\ calls < MaxCalls
    /\ \E x \in {ReadSmallBlockHeader(Start(stream))} : Decoded("ReadSmallBlockHeader", NoArg, x)

CallReadChainHashList ==
    /\ IsReader(stream)
    /\ calls < MaxCalls
    /\ \E x \in {ReadChainHashList(Start(stream))} : Decoded("ReadChainHashList", NoArg, x)

CallReadSegwitData ==
    /\ IsReader(stream)
    /\ calls < MaxCalls
    /\ \E x \in {ReadSegwitData(Start(stream))} : Decoded("ReadSegwitData", NoArg, x)

CallReadShareData ==
    /\ IsReader(stream)
    /\ calls < MaxCalls
    /\ \E x \in {ReadShareData(Start(stream))} : Decoded("ReadShareData", NoArg, x)

CallReadTransactionHashRefList ==
    /\ IsReader(stream)
    /\ calls < MaxCalls
    /\ \E x \in {ReadTransactionHashRefList(Start(stream))} : Decoded("ReadTransactionHashRefList", NoArg, x)

CallReadTransactionHashRef ==
    /\ IsReader(stream)
    /\ calls < MaxCalls
    /\ \E x \in {ReadTransactionHashRef(Start(stream))} : Decoded("ReadTransactionHashRef", NoArg, x)

CallReadHashLink ==
    /\ IsReader(stream)
    /\ calls < MaxCalls
    /\ \E x \in {ReadHashLink(Start(stream))} : Decoded("ReadHashLink", NoArg, x)

CallReadShareInfo ==
    /\ IsReader(stream)
    /\ calls < MaxCalls
    /\ \E segwit \in BOOLEAN :
          \E x \in {ReadShareInfo(Start(stream), segwit)} :
              Decoded("ReadShareInfo", segwit, x)

CallWriteIPAddr ==
    /\ IsWriter(stream)
    /\ calls < MaxCalls
    /\ \E a \in IPSamples :
          \E x \in {WriteIPAddr(Start(stream), a)} : Encoded("WriteIPAddr", a, x)

CallWriteVarString ==
    /\ IsWriter(stream)
    /\ calls < MaxCalls
    /\ \E a \in StrSamples :
          \E x \in {WriteVarString(Start(stream), a)} : Encoded("WriteVarString", a, x)

CallWriteVarInt ==
    /\ IsWriter(stream)
    /\ calls < MaxCalls
    /\ \E a \in U64Samples :
          \E x \in {WriteVarInt(Start(stream), a)} : Encoded("WriteVarInt", a, x)

CallWriteBigInt256 ==
    /\ IsWriter(stream)
    /\ calls < MaxCalls
    /\ \E a \in BigIntSamples :
          \E x \in {WriteBigInt256(Start(stream), a)} : Encoded("WriteBigInt256", a, x)

CallWriteChainHash ==
    /\ IsWriter(stream)
    /\ calls < MaxCalls
    /\ \E a \in HashSamples \cup {Nil} :
          \E x \in {WriteChainHash(Start(stream), a)} : Encoded("WriteChainHash", a, x)

CallWriteSmallBlockHeader ==
    /\ IsWriter(stream)
    /\ calls < MaxCalls
    /\ \E a \in HeaderSamples :
          \E x \in {WriteSmallBlockHeader(Start(stream), a)} : Encoded("WriteSmallBlockHeader", a, x)

CallWriteChainHashList ==
    /\ IsWriter(stream)
    /\ calls < MaxCalls
    /\ \E a \in HashLists(MaxList) :
          \E x \in {WriteChainHashList(Start(stream), a)} : Encoded("WriteChainHashList", a, x)

Next ==
    \/ CallReadVarString
    \/ CallReadVarInt
    \/ CallReadIPAddr
    \/ CallReadBigInt256
    \/ CallReadChainHash
    \/ CallReadSmallBlockHeader
    \/ CallReadChainHashList
    \/ CallReadSegwitData
    \/ CallReadShareData
    \/ CallReadTransactionHashRefList
    \/ CallReadTransactionHashRef
    \/ CallReadHashLink
    \/ CallReadShareInfo
    \/ CallWriteIPAddr
    \/ CallWriteVarString
    \/ CallWriteVarInt
    \/ CallWriteBigInt256
    \/ CallWriteChainHash
    \/ CallWriteSmallBlockHeader
    \/ CallWriteChainHashList

Spec == Init /\ [][Next]_vars

(***************************************************************************)
(* What the last call did to the stream                                    *)
(***************************************************************************)
\* the bytes the call took from the reader
Consumed == Take(before.data, Len(before.data) - Len(stream.data))

\* the bytes the call added to the writer
Wrote == Drop(stream.buf, Len(before.buf))

\* the stream hands over whatever a Read asks for
Contiguous(s) == s.mtu >= Len(s.data)

\* a buffer holding exactly these bytes
Buffer(bytes) == Start(NewReader(bytes, Len(bytes) + 1))

\* the width of the narrowest tier that holds v
TierLen(v) ==
    IF v[1] = 0 /\ v[2] = 0 /\ v[3] = 0 /\ v[4] < 253 THEN 1
    ELSE IF v[1] = 0 /\ v[2] = 0 /\ v[3] = 0 THEN 3
    ELSE IF v[1] = 0 /\ v[2] = 0 THEN 5
    ELSE 9

\* the encoding the protocol prescribes for v: the discriminant of the
\* narrowest tier, then the payload from the least significant byte
CanonVarInt(v) ==
    CASE TierLen(v) = 1 -> <<v[4]>>
      [] TierLen(v) = 3 -> <<253, v[4] % 256, v[4] \div 256>>
      [] TierLen(v) = 5 ->
           <<254, v[4] % 256, v[4] \div 256, v[3] % 256, v[3] \div 256>>
      [] OTHER ->
           <<255, v[4] % 256, v[4] \div 256, v[3] % 256, v[3] \div 256,
             v[2] % 256, v[2] \div 256, v[1] % 256, v[1] \div 256>>

(***************************************************************************)
(* C1: WriteVarInt and ReadVarInt                                          *)
(***************************************************************************)
\* C1: for every uint64 v, WriteVarInt(v) into a sink with room writes the
\* narrowest tier (1, 3, 5 or 9 bytes, discriminant first, little-endian
\* payload), and ReadVarInt on exactly those bytes returns v and no error,
\* however the bytes are delivered.
C1_VarIntRoundTrip ==
    op = "WriteVarInt" =>
        /\ before.room >= TierLen(arg) => err = "nil"
        /\ err = "nil" =>
             /\ Len(Wrote) = TierLen(arg)
             /\ Wrote = CanonVarInt(arg)
             /\ \A m \in MTUs :
                  LET r == ReadVarInt(Start(NewReader(Wrote, m)))
                  IN  r.err = "nil" /\ r.val = arg /\ r.io.s.data = <<>>

\* a value of the widest tier was written
C1_Witness ==
    /\ op = "WriteVarInt"
    /\ err = "nil"
    /\ arg = <<0, 1, 0, 0>>
    /\ Len(Wrote) = 9

(***************************************************************************)
(* C2: non-minimal encodings                                               *)
(***************************************************************************)
\* the stream starts with a whole encoding in a tier wider than its value needs
NonMinimal16(d) == Len(d) >= 3 /\ d[1] = 253 /\ d[3] = 0 /\ d[2] < 253

NonMinimal32(d) == Len(d) >= 5 /\ d[1] = 254 /\ d[4] = 0 /\ d[5] = 0

NonMinimal64(d) ==
    Len(d) >= 9 /\ d[1] = 255 /\ d[6] = 0 /\ d[7] = 0 /\ d[8] = 0 /\ d[9] = 0

\* C2: ReadVarInt answers every whole non-minimal encoding with the
\* non-canonical error of its tier and the value 0, and the bytes it
\* accepts are the one canonical encoding of the value it returns, so no
\* two byte strings are accepted as the same value.
C2_RejectsNonMinimal ==
    op = "ReadVarInt" =>
        /\ NonMinimal16(before.data) => err = ErrCanon16 /\ Val = <<0, 0, 0, 0>>
        /\ NonMinimal32(before.data) => err = ErrCanon32 /\ Val = <<0, 0, 0, 0>>
        /\ NonMinimal64(before.data) => err = ErrCanon64 /\ Val = <<0, 0, 0, 0>>
        /\ err = "nil" => Consumed = CanonVarInt(Val)

\* 0xfc in the three-byte tier was refused
C2_Witness ==
    /\ op = "ReadVarInt"
    /\ Len(before.data) >= 3
    /\ Take(before.data, 3) = <<253, 252, 0>>
    /\ err = ErrCanon16

(***************************************************************************)
(* C3: short reads in ReadVarInt                                           *)
(***************************************************************************)
\* the stream ends before the discriminant or inside the payload
Truncated(d) ==
    \/ Len(d) = 0
    \/ d[1] = 253 /\ Len(d) < 3
    \/ d[1] = 254 /\ Len(d) < 5
    \/ d[1] = 255 /\ Len(d) < 9

\* C3: when the stream ends before the discriminant or inside the payload,
\* ReadVarInt returns the end-of-stream error of the read that failed, not
\* a non-canonical error and not a value.
C3_ShortReadIsTruncation ==
    op = "ReadVarInt" /\ Truncated(before.data) => err \in {"EOF", "unexpected EOF"}

(***************************************************************************)
(* C4: WriteBigInt256 and ReadBigInt256                                    *)
(***************************************************************************)
\* C4: for every v below 2^256, zero and one among them, WriteBigInt256
\* writes the 32 big-endian bytes of v padded with zeros on the left, and
\* ReadBigInt256 on those bytes returns v.
C4_BigIntRoundTrip ==
    op = "WriteBigInt256" /\ Len(arg) <= BigIntLen /\ before.room >= BigIntLen =>
        /\ err = "nil"
        /\ Wrote = Zeros(BigIntLen - Len(arg)) \o arg
        /\ LET r == ReadBigInt256(Buffer(Wrote))
           IN  r.err = "nil" /\ r.val = arg

(***************************************************************************)
(* C5: the fixed-width decoders                                            *)
(***************************************************************************)
FixedWidth ==
    [ReadIPAddr |-> IPLen, ReadChainHash |-> HashSize, ReadBigInt256 |-> BigIntLen,
     ReadHashLink |-> StateLen]

\* C5: a fixed-width decode of n bytes from a stream that hands over what
\* is asked for fails when fewer than n bytes remain, and otherwise
\* succeeds, takes exactly the first n bytes and leaves the rest unread;
\* so do the reads of the HashLink state, the pubKeyHash and absWork.
C5_FixedWidth ==
    /\ op \in {"ReadIPAddr", "ReadChainHash", "ReadBigInt256"} /\ Contiguous(before) =>
         LET n == FixedWidth[op]
         IN  IF Len(before.data) < n THEN err # "nil"
             ELSE err = "nil" /\ stream.data = Drop(before.data, n)
    /\ op = "ReadHashLink" /\ Contiguous(before) =>
         IF Len(before.data) < StateLen THEN err # "nil"
         ELSE Val.State = Take(before.data, StateLen)
    /\ op \in {"ReadShareData", "ReadShareInfo"} /\ Contiguous(before) =>
         \A i \in 1..Len(log) :
             log[i].req \in {PubKeyHashLen, AbsWorkLen} /\ log[i].got < log[i].req =>
                 err # "nil"

(***************************************************************************)
(* C6: failed writes                                                       *)
(***************************************************************************)
Encoders ==
    {"WriteIPAddr", "WriteVarString", "WriteVarInt", "WriteBigInt256", "WriteChainHash",
     "WriteSmallBlockHeader", "WriteChainHashList"}

\* C6: when a write an encoder issues comes back short, the encoder returns
\* an error and issues no further write; WriteVarString returns the error
\* of the sink.
C6_WriteErrorsPropagate ==
    op \in Encoders =>
        \A i \in 1..Len(log) :
            log[i].got < log[i].req =>
                /\ err # "nil"
                /\ i = Len(log)
                /\ op = "WriteVarString" => err = "short write"

(***************************************************************************)
(* C7: failed list and composite decoders                                  *)
(***************************************************************************)
\* C7: a list or composite decoder that fails returns nothing of what it
\* decoded before the failure: the value returned with the error is the
\* empty list or the zero structure.
C7_NoPartialStructure ==
    /\ op \in {"ReadChainHashList", "ReadTransactionHashRefList"} /\ err # "nil" =>
         Val = <<>>
    /\ op = "ReadSegwitData" /\ err # "nil" => Val = ZeroSegwitData
    /\ op = "ReadShareData" /\ err # "nil" => Val = ZeroShareData
    /\ op = "ReadShareInfo" /\ err # "nil" => Val = ZeroShareInfo

(***************************************************************************)
(* C8: the layout of ShareInfo                                             *)
(***************************************************************************)
\* the share whose bytes, laid out field by field in the order of the
\* protocol, the stream starts with
StartsWith(d, w) == Len(d) >= Len(w) /\ Take(d, Len(w)) = w

\* C8: ReadShareInfo reads ShareData, SegwitData exactly when segwit is
\* set, the new transaction hashes, the transaction hash references, the
\* far share hash, maxBits, bits, timestamp, absHeight and the 16 big-endian
\* bytes of absWork: from a stream that starts with the bytes of a share in
\* that order and hands over a hash at a time it returns that share and
\* leaves the stream right behind those bytes; without segwit no byte is
\* read for SegwitData and the field stays empty.
C8_ShareInfoLayout ==
    op = "ReadShareInfo" =>
        /\ arg = FALSE => Val.SegwitData = ZeroSegwitData
        /\ \A x \in ShareInfoVectors :
             x.segwit = arg /\ StartsWith(before.data, x.w) =>
                 /\ before.mtu >= HashSize => err = "nil"
                 /\ err = "nil" =>
                      /\ Val = x.v
                      /\ Consumed = x.w
                      /\ stream.data = Drop(before.data, Len(x.w))

\* a share without segwit data, two new transaction hashes and two
\* references, was read and the byte behind it is still there
C8_Witness ==
    /\ op = "ReadShareInfo"
    /\ arg = FALSE
    /\ err = "nil"
    /\ Len(Val.NewTransactionHashes) = 2
    /\ Len(Val.TransactionHashRefs) = 2
    /\ Val.SegwitData = ZeroSegwitData
    /\ stream.data = <<7>>

(***************************************************************************)
(* C9: WriteChainHashList and ReadChainHashList                            *)
(***************************************************************************)
\* the hashes on the wire: the null hash where the list holds nil
NullFilled(list) ==
    [i \in 1..Len(list) |-> IF list[i] = Nil THEN nullHash ELSE list[i]]

\* C9: WriteChainHashList into a sink with room writes the length as a
\* VarInt and then every hash of the list in order, 32 bytes each, the null
\* hash for a nil element; ReadChainHashList on those bytes returns the
\* same hashes in the same order; the empty list is the one byte 0x00.
C9_HashListRoundTrip ==
    op = "WriteChainHashList" /\ before.room >= 1 + HashSize * Len(arg) =>
        /\ err = "nil"
        /\ Len(Wrote) = 1 + HashSize * Len(arg)
        /\ Wrote = CanonVarInt(U64OfLen(Len(arg))) \o Flat(NullFilled(arg))
        /\ arg = <<>> => Wrote = <<0>>
        /\ \A m \in {HashSize, 65536} :
             LET r == ReadChainHashList(Start(NewReader(Wrote, m)))
             IN  r.err = "nil" /\ r.val = NullFilled(arg) /\ r.io.s.data = <<>>

\* a list of two, a nil hash first, was written
C9_Witness ==
    /\ op = "WriteChainHashList"
    /\ Len(arg) = 2
    /\ arg[1] = Nil
    /\ arg[2] # Nil
    /\ err = "nil"
    /\ Len(Wrote) = 1 + 2 * HashSize

(***************************************************************************)
(* C10: one Read for a field of raw bytes                                  *)
(***************************************************************************)
\* the Read calls of the last call that came back short of a request for
\* raw bytes; the integers are asked for in at most 8 bytes, through
\* binary.Read
ShortRawReads == {i \in 1..Len(log) : log[i].req > 8 /\ log[i].got < log[i].req}

\* the bytes the Read calls i to j of the last call delivered
RECURSIVE Delivered(_, _)
Delivered(i, j) ==
    IF i > j THEN 0
    ELSE IF i = j THEN log[i].got
    ELSE Delivered(i, (i + j) \div 2) + Delivered((i + j) \div 2 + 1, j)

\* C10: ReadChainHash, ReadBigInt256 and ReadIPAddr call Read once, for the
\* whole field; ReadHashLink asks for the state, ReadVarString for the body,
\* ReadShareData for the pubKeyHash and ReadShareInfo for absWork in one
\* Read; when that Read comes back short, the decoder returns an error and
\* calls Read no more, even where the stream holds the rest, and the bytes
\* of the short Read are gone from the stream.
C10_SingleRead ==
    /\ op \in {"ReadChainHash", "ReadBigInt256", "ReadIPAddr"} =>
         /\ Len(log) = 1
         /\ log[1].req = FixedWidth[op]
    /\ op = "ReadHashLink" => log[1].req = StateLen
    /\ op = "ReadVarString" =>
         LET l == ReadVarInt(Start(before))
         IN  l.err = "nil" /\ l.val[1] = 0 =>
                 /\ Len(log) = Len(l.io.log) + 1
                 /\ log[Len(log)].req = ReqLen(l.val)
    /\ op \in {"ReadChainHash", "ReadBigInt256", "ReadIPAddr", "ReadHashLink",
               "ReadVarString", "ReadShareData", "ReadShareInfo"} =>
         \A i \in ShortRawReads :
             /\ err # "nil"
             /\ i = Len(log)
             /\ stream.data = Drop(before.data, Delivered(1, i))

\* a hash was asked of a stream that holds it and hands over 20 bytes a
\* Read: the call failed after the one Read, the 20 bytes taken
C10_Witness ==
    /\ op = "ReadChainHash"
    /\ before.mtu = 20
    /\ Len(before.data) >= HashSize
    /\ err # "nil"
    /\ Len(log) = 1
    /\ Len(stream.data) = Len(before.data) - 20

=============================================================================
